---------------------------- MODULE Spec2Model ----------------------------
(***************************************************************************)
(* Next-word prediction pipeline of LSTM_Implementation.ipynb: the         *)
(* notebook's cells run top to bottom over a corpus (tokenizer fit,        *)
(* n-gram sequence expansion, padding, label encoding, split, model build, *)
(* fit, save) and then predict_next_word is called from the test cells.    *)
(* The recurrent network is an opaque classifier: model.predict returns an *)
(* arbitrary vector of class scores over total_words classes.              *)
(***************************************************************************)
EXTENDS Integers, Sequences, FiniteSets, TLC

(* ----- bounds of the model ------------------------------------------- *)
MaxLines == 2        \* lines of the corpus (text.split('\n') gives >= 1)
MaxCorpusWords == 4  \* words of the corpus, over all its lines
MaxTextLen == 2      \* words of an inference input text

(* Words of the corpus, and one more word that inference texts may hold. *)
Words == {"a", "b"}
TextWords == Words \cup {"z"}

(* Scores of one class in the classifier's output. np.argmax depends only *)
(* on which classes hold the maximum, and every non-empty set of classes   *)
(* is the set of maxima of some vector over two levels.                    *)
Scores == {"low", "high"}
Leq(a, b) == a = "low" \/ b = "high"
Less(a, b) == a = "low" /\ b = "high"

(* Python's None, as returned by predict_next_word. *)
None == "<None>"

SeqsUpTo(S, n) == UNION {[1..k -> S] : k \in 0..n}

Min(a, b) == IF a < b THEN a ELSE b

(* ----- Python list helpers ------------------------------------------- *)

(* s[-k:] : the last k elements; -0 is 0, so s[-0:] is the whole list. *)
PySliceLast(s, k) ==
    IF k = 0 \/ k >= Len(s) THEN s
    ELSE SubSeq(s, Len(s) - k + 1, Len(s))

(* s[:k] for 0 <= k *)
PySliceFirst(s, k) == SubSeq(s, 1, Min(k, Len(s)))

Zeros(n) == [j \in 1..n |-> 0]

RECURSIVE Concat(_)
Concat(ss) == IF ss = <<>> THEN <<>> ELSE Head(ss) \o Concat(Tail(ss))

RECURSIVE MinOfLens(_)
(* the least element, where the code takes the greatest *)
MinOfLens(s) ==
    IF Len(s) = 1 THEN s[1]
    ELSE LET m == MinOfLens(Tail(s)) IN IF s[1] <= m THEN s[1] ELSE m

RECURSIVE MaxOf(_)
(* max() of a non-empty list of numbers *)
MaxOf(s) ==
    IF Len(s) = 1 THEN s[1]
    ELSE LET m == MaxOf(Tail(s)) IN IF s[1] >= m THEN s[1] ELSE m

(* ----- keras Tokenizer ----------------------------------------------- *)

RECURSIVE CountIn(_, _)
CountIn(w, ws) ==
    IF ws = <<>> THEN 0
    ELSE (IF Head(ws) = w THEN 1 ELSE 0) + CountIn(w, Tail(ws))

RECURSIVE FirstOccurrences(_)
(* keys of word_counts (an OrderedDict) in insertion order *)
FirstOccurrences(ws) ==
    IF ws = <<>> THEN <<>>
    ELSE LET init == FirstOccurrences(SubSeq(ws, 1, Len(ws) - 1))
             w == ws[Len(ws)]
         IN IF \E j \in 1..Len(init) : init[j] = w THEN init ELSE Append(init, w)

RECURSIVE InsertByCountStrict(_, _, _)
InsertByCountStrict(w, sorted, ws) ==
    IF sorted = <<>> THEN <<w>>
    ELSE IF CountIn(w, ws) >= CountIn(Head(sorted), ws) THEN <<w>> \o sorted
    ELSE <<Head(sorted)>> \o InsertByCountStrict(w, Tail(sorted), ws)

RECURSIVE InsertByCount(_, _, _)
(* stable insertion: w goes after every word whose count is >= its own *)
InsertByCount(w, sorted, ws) ==
    IF sorted = <<>> THEN <<w>>
    ELSE IF CountIn(w, ws) > CountIn(Head(sorted), ws) THEN <<w>> \o sorted
    ELSE <<Head(sorted)>> \o InsertByCount(w, Tail(sorted), ws)

RECURSIVE SortByCount(_, _)
(* wcounts.sort(key=lambda x: x[1], reverse=True), a stable sort: keys is   *)
(* consumed front to back, each key inserted behind its equals              *)
SortByCount(keys, ws) ==
    IF keys = <<>> THEN <<>>
    ELSE InsertByCount(keys[Len(keys)],
                       SortByCount(SubSeq(keys, 1, Len(keys) - 1), ws), ws)

WordIndexFromZero(sorted_voc) ==
    [w \in {sorted_voc[j] : j \in 1..Len(sorted_voc)} |->
        (CHOOSE j \in 1..Len(sorted_voc) : sorted_voc[j] = w) - 1]

(* word_index = dict(zip(sorted_voc, range(1, len(sorted_voc) + 1))) *)
WordIndexOf(sorted_voc) ==
    [w \in {sorted_voc[j] : j \in 1..Len(sorted_voc)} |->
        CHOOSE j \in 1..Len(sorted_voc) : sorted_voc[j] = w]

(* tokenizer.fit_on_texts([text]): newlines are separators, so the words   *)
(* of all lines are counted as one text                                    *)
FitOnTexts(lines) ==
    LET ws == Concat(lines)
    IN WordIndexOf(SortByCount(FirstOccurrences(ws), ws))

RECURSIVE TextsToSequencesOov(_, _)
TextsToSequencesOov(wi, ws) ==
    IF ws = <<>> THEN <<>>
    ELSE (IF Head(ws) \in DOMAIN wi THEN <<wi[Head(ws)]>> ELSE <<0>>)
         \o TextsToSequencesOov(wi, Tail(ws))

RECURSIVE TextsToSequences(_, _)
(* tokenizer.texts_to_sequences([line])[0]: a word without an index is     *)
(* skipped (the tokenizer has no oov_token)                                *)
TextsToSequences(wi, ws) ==
    IF ws = <<>> THEN <<>>
    ELSE (IF Head(ws) \in DOMAIN wi THEN <<wi[Head(ws)]>> ELSE <<>>)
         \o TextsToSequences(wi, Tail(ws))

(* ----- n-gram expansion ---------------------------------------------- *)

NGramsFromZero(token_list) ==
    [i \in 1..Len(token_list) |-> PySliceFirst(token_list, i)]

(* for i in range(1, len(token_list)): append token_list[:i+1] *)
NGrams(token_list) ==
    IF Len(token_list) < 2 THEN <<>>
    ELSE [i \in 1..(Len(token_list) - 1) |-> PySliceFirst(token_list, i + 1)]

(* ----- pad_sequences -------------------------------------------------- *)

PadPost(s, maxlen) ==
    LET trunc == PySliceLast(s, maxlen)
    IN trunc \o Zeros(maxlen - Len(trunc))

(* one row of pad_sequences(..., maxlen, padding='pre') (truncating is     *)
(* 'pre' by default): an empty sequence leaves the row of zeros            *)
PadPre(s, maxlen) ==
    IF Len(s) = 0 THEN Zeros(maxlen)
    ELSE LET trunc == PySliceLast(s, maxlen)
         IN Zeros(maxlen - Len(trunc)) \o trunc

PadSequences(seqs, maxlen) == [r \in 1..Len(seqs) |-> PadPre(seqs[r], maxlen)]

(* ----- labels and split ----------------------------------------------- *)

(* row[:-1] *)
AllButLast(row) == SubSeq(row, 1, Len(row) - 1)

FirstOf(row) == row[1]

(* row[-1] *)
LastOf(row) == row[Len(row)]

(* the column of the label is counted from 1, where the code counts from 0 *)
ToCategoricalColumnFromOne(label, num_classes) ==
    [c \in 1..num_classes |-> IF c = label THEN 1 ELSE 0]

(* one row of tf.keras.utils.to_categorical(y, num_classes): class ids     *)
(* start at 0, so class id c is column c + 1 of the row                    *)
ToCategorical(label, num_classes) ==
    [c \in 1..num_classes |-> IF c = label + 1 THEN 1 ELSE 0]

(* train_test_split: n_test = ceil(0.2 * n), n_train = n - n_test *)
NTest(n) == (n + 4) \div 5

RowsUnfiltered(m, idx, j) == m

RECURSIVE Rows(_, _, _)
(* the rows of m whose index is in idx, from row j on *)
Rows(m, idx, j) ==
    IF j > Len(m) THEN <<>>
    ELSE (IF j \in idx THEN <<m[j]>> ELSE <<>>) \o Rows(m, idx, j + 1)

(* ----- predict_next_word ---------------------------------------------- *)

TruncateTokensFront(token_list, msl) ==
    IF Len(token_list) >= msl THEN PySliceFirst(token_list, msl - 1)
    ELSE token_list

(* if len(token_list) >= max_sequence_len:                                 *)
(*     token_list = token_list[-(max_sequence_len - 1):]                   *)
TruncateTokens(token_list, msl) ==
    IF Len(token_list) >= msl THEN PySliceLast(token_list, msl - 1)
    ELSE token_list

(* the row handed to model.predict *)
PredictRow(wi, txt, msl) ==
    PadPre(TruncateTokens(TextsToSequences(wi, txt), msl), msl - 1)

ArgMaxLast(p) ==
    (CHOOSE c \in 1..Len(p) :
        /\ \A d \in 1..Len(p) : Leq(p[d], p[c])
        /\ \A d \in (c + 1)..Len(p) : Less(p[d], p[c])) - 1

(* np.argmax: the class id of the first maximum *)
ArgMax(p) ==
    (CHOOSE c \in 1..Len(p) :
        /\ \A d \in 1..Len(p) : Leq(p[d], p[c])
        /\ \A d \in 1..(c - 1) : Less(p[d], p[c])) - 1

LookupWordOrFirst(wi, idx) ==
    LET ms == {w \in DOMAIN wi : wi[w] = idx}
    IN IF ms # {} THEN CHOOSE w \in ms : TRUE
       ELSE CHOOSE w \in DOMAIN wi : wi[w] = 1

(* for word, index in tokenizer.word_index.items():                        *)
(*     if index == predicted_word_index: return word                       *)
(* return None                                                             *)
LookupWord(wi, idx) ==
    LET ms == {w \in DOMAIN wi : wi[w] = idx}
    IN IF ms # {} THEN CHOOSE w \in ms : TRUE ELSE None

RederivedLenNoIncrement(shape) == shape

(* max_sequence_len = model.input_shape[1] + 1 *)
RederivedLen(shape) == shape + 1

(* ----- state ---------------------------------------------------------- *)

VARIABLES
    pc,                \* the cell to run next
    text,              \* the corpus, as the word lists of its lines
    word_index,        \* tokenizer.word_index
    total_words,
    li,                \* next line of the expansion loop
    input_sequences,   \* list of n-grams, then the padded matrix
    max_sequence_len,  \* 0 while undefined
    X, y,
    test_idx,          \* the rows train_test_split holds out
    X_train, X_test, y_train, y_test,
    input_shape,       \* model.input_shape[1]; 0 while the model is unbuilt
    fitted,
    saved,
    error,
    called,            \* a call of predict_next_word has returned to the cell
    input_text,        \* that call's text,
    token_list,        \*   row passed to model.predict,
    predicted,         \*   scores returned by model.predict,
    next_word          \*   value returned

vars == <<pc, text, word_index, total_words, li, input_sequences,
          max_sequence_len, X, y, test_idx, X_train, X_test, y_train, y_test,
          input_shape, fitted, saved, error,
          called, input_text, token_list, predicted, next_word>>

prep == <<word_index, total_words, li, input_sequences, max_sequence_len, X, y>>
split == <<test_idx, X_train, X_test, y_train, y_test>>
model == <<input_shape, fitted, saved>>
call == <<called, input_text, token_list, predicted, next_word>>

CellsExpandFirst ==
    <<"sequences", "tokenizer", "pad", "labels", "split", "build", "fit",
      "save", "test1", "print1", "test2", "print2", "done">>

(* the code cells of the notebook, top to bottom *)
Cells ==
    <<"tokenizer", "sequences", "pad", "labels", "split", "build", "fit",
      "save", "test1", "print1", "test2", "print2", "done">>

NextCell(c) == Cells[(CHOOSE j \in 1..Len(Cells) : Cells[j] = c) + 1]

(* The corpora: at least one line, and the first word of a corpus is "a": *)
(* nothing in the notebook reads the spelling of a word, so a corpus that  *)
(* starts with "b" behaves as the one with "a" and "b" exchanged.          *)
Corpora ==
    {c \in SeqsUpTo(SeqsUpTo(Words, MaxCorpusWords), MaxLines) \ {<<>>} :
        /\ Len(Concat(c)) <= MaxCorpusWords
        /\ Concat(c) # <<>> => Head(Concat(c)) = "a"}

Texts == SeqsUpTo(TextWords, MaxTextLen)

Init ==
    /\ pc = Cells[1]
    /\ text \in Corpora
    /\ word_index = [w \in {} |-> 0]
    /\ total_words = 0
    /\ li = 1
    /\ input_sequences = <<>>
    /\ max_sequence_len = 0
    /\ X = <<>> /\ y = <<>>
    /\ test_idx = {}
    /\ X_train = <<>> /\ X_test = <<>> /\ y_train = <<>> /\ y_test = <<>>
    /\ input_shape = 0
    /\ fitted = FALSE
    /\ saved = FALSE
    /\ error = ""
    /\ called = FALSE
    /\ input_text = <<>>
    /\ token_list = <<>>
    /\ predicted = <<>>
    /\ next_word = None

(* cell 3: tokenizer.fit_on_texts([text]); total_words *)
FitTokenizer ==
    /\ pc = "tokenizer"
    /\ word_index' = FitOnTexts(text)
    /\ total_words' = Cardinality(DOMAIN word_index') + 1
    /\ pc' = NextCell("tokenizer")
    /\ UNCHANGED <<text, li, input_sequences, max_sequence_len, X, y,
                   split, model, error, call>>

(* cell 4, one iteration of the loop over text.split('\n') *)
ExpandLine ==
    /\ pc = "sequences"
    /\ li <= Len(text)
    /\ input_sequences' =
          input_sequences \o NGrams(TextsToSequences(word_index, text[li]))
    /\ li' = li + 1
    /\ UNCHANGED <<pc, text, word_index, total_words, max_sequence_len, X, y,
                   split, model, error, call>>

(* cell 4, the loop is over *)
ExpandDone ==
    /\ pc = "sequences"
    /\ li > Len(text)
    /\ pc' = NextCell("sequences")
    /\ UNCHANGED <<text, prep, split, model, error, call>>

PadEmptyGoesOn ==
    /\ pc = "pad"
    /\ input_sequences = <<>>
    /\ max_sequence_len' = 0
    /\ pc' = NextCell("pad")
    /\ UNCHANGED <<text, word_index, total_words, li, input_sequences, X, y,
                   split, model, error, call>>

(* cell 5: max() of an empty list raises ValueError *)
PadFail ==
    /\ pc = "pad"
    /\ input_sequences = <<>>
    /\ pc' = "failed"
    /\ error' = "ValueError"
    /\ UNCHANGED <<text, prep, split, model, call>>

(* cell 5: max_sequence_len and pad_sequences *)
Pad ==
    /\ pc = "pad"
    /\ input_sequences # <<>>
    /\ max_sequence_len' =
          MaxOf([r \in 1..Len(input_sequences) |-> Len(input_sequences[r])])
    /\ input_sequences' = PadSequences(input_sequences, max_sequence_len')
    /\ pc' = NextCell("pad")
    /\ UNCHANGED <<text, word_index, total_words, li, X, y,
                   split, model, error, call>>

(* cell 6: X, y and to_categorical *)
Labels ==
    /\ pc = "labels"
    /\ X' = [r \in 1..Len(input_sequences) |-> AllButLast(input_sequences[r])]
    /\ y' = [r \in 1..Len(input_sequences) |->
                ToCategorical(LastOf(input_sequences[r]), total_words)]
    /\ pc' = NextCell("labels")
    /\ UNCHANGED <<text, word_index, total_words, li, input_sequences,
                   max_sequence_len, split, model, error, call>>

(* cell 7: train_test_split raises ValueError when the train set is empty *)
SplitFail ==
    /\ pc = "split"
    /\ Len(X) - NTest(Len(X)) = 0
    /\ pc' = "failed"
    /\ error' = "ValueError"
    /\ UNCHANGED <<text, prep, split, model, call>>

(* cell 7: a random choice of the held-out rows; the rows of each side    *)
(* are kept in the order of X                                             *)
Split ==
    /\ pc = "split"
    /\ Len(X) - NTest(Len(X)) > 0
    /\ \E idx \in SUBSET (1..Len(X)) :
          /\ Cardinality(idx) = NTest(Len(X))
          /\ test_idx' = idx
          /\ X_test' = Rows(X, idx, 1)
          /\ y_test' = Rows(y, idx, 1)
          /\ X_train' = Rows(X, (1..Len(X)) \ idx, 1)
          /\ y_train' = Rows(y, (1..Len(X)) \ idx, 1)
    /\ pc' = NextCell("split")
    /\ UNCHANGED <<text, prep, model, error, call>>

(* cell 8: Sequential(); the Embedding's input_length is ignored by the    *)
(* framework (the notebook's output shows the layers unbuilt)              *)
Build ==
    /\ pc = "build"
    /\ pc' = NextCell("build")
    /\ UNCHANGED <<text, prep, split, model, error, call>>

(* cell 9: model.fit builds the model on the shape of X_train *)
Fit ==
    /\ pc = "fit"
    /\ input_shape' = Len(X_train[1])
    /\ fitted' = TRUE
    /\ pc' = NextCell("fit")
    /\ UNCHANGED <<text, prep, split, saved, error, call>>

(* cell 11: model.save and pickle.dump(tokenizer) *)
Save ==
    /\ pc = "save"
    /\ saved' = TRUE
    /\ pc' = NextCell("save")
    /\ UNCHANGED <<text, prep, split, input_shape, fitted, error, call>>

(* predict_next_word(model, tokenizer, txt, msl); model.predict returns    *)
(* any vector of scores over the total_words classes                       *)
PredictNextWord(txt, msl) ==
    /\ called' = TRUE
    /\ input_text' = txt
    /\ token_list' = PredictRow(word_index, txt, msl)
    /\ \E p \in [1..total_words -> Scores] :
          /\ predicted' = p
          /\ next_word' = LookupWord(word_index, ArgMax(p))

(* cell 12: max_sequence_len = model.input_shape[1] + 1, then a prediction *)
Test1 ==
    /\ pc = "test1"
    /\ max_sequence_len' = RederivedLen(input_shape)
    /\ \E txt \in Texts : PredictNextWord(txt, max_sequence_len')
    /\ pc' = NextCell("test1")
    /\ UNCHANGED <<text, word_index, total_words, li, input_sequences, X, y,
                   split, model, error>>

(* cell 13: a second prediction *)
Test2 ==
    /\ pc = "test2"
    /\ \E txt \in Texts : PredictNextWord(txt, max_sequence_len)
    /\ pc' = NextCell("test2")
    /\ UNCHANGED <<text, prep, split, model, error>>

(* cells 12 and 13, last line: the prediction is printed and the cell     *)
(* ends; nothing of the call is read again                                 *)
PrintPrediction ==
    /\ pc \in {"print1", "print2"}
    /\ called' = FALSE
    /\ input_text' = <<>>
    /\ token_list' = <<>>
    /\ predicted' = <<>>
    /\ next_word' = None
    /\ pc' = NextCell(pc)
    /\ UNCHANGED <<text, prep, split, model, error>>

Next ==
    \/ FitTokenizer
    \/ ExpandLine
    \/ ExpandDone
    \/ PadFail
    \/ Pad
    \/ Labels
    \/ SplitFail
    \/ Split
    \/ Build
    \/ Fit
    \/ Save
    \/ Test1
    \/ Test2
    \/ PrintPrediction

Spec == Init /\ [][Next]_vars

TypeOK ==
    /\ pc \in {Cells[j] : j \in 1..Len(Cells)} \cup {"failed"}
    /\ text \in Corpora
    /\ total_words \in Nat
    /\ max_sequence_len \in Nat

(* ----- properties ----------------------------------------------------- *)

(* the id list of corpus line l under the current vocabulary *)
LineIds(l) == TextsToSequences(word_index, text[l])

(* the n-grams of the whole corpus, in the order cell 4 appends them *)
ExpandedSequences ==
    Concat([l \in 1..Len(text) |-> NGrams(LineIds(l))])

(* the distinct words of the corpus *)
CorpusWords == {w \in Words : \E l \in 1..Len(text) : \E j \in 1..Len(text[l]) : text[l][j] = w}

(* cell 3 has run *)
VocabularyBuilt == pc # "tokenizer"

(* cell 5 has run *)
Padded == max_sequence_len > 0

(* a call of predict_next_word has been made in this run *)
Inference == pc \in {"print1", "test2", "print2", "done"}

(* C1: one iteration of the expansion loop over a line whose id list has   *)
(* length N appends, behind what is already there, exactly N-1 sequences   *)
(* when N >= 2, the k-th of length k+1 and equal to the first k+1 ids of   *)
(* the line, and appends nothing when N < 2.                               *)
C1_ExpansionAppendsPrefixes ==
    [][(pc = "sequences" /\ li <= Len(text)) =>
        LET ids == LineIds(li)
            N == Len(ids)
            old == Len(input_sequences)
            added == SubSeq(input_sequences', old + 1, Len(input_sequences'))
        IN /\ SubSeq(input_sequences', 1, old) = input_sequences
           /\ N < 2 => added = <<>>
           /\ N >= 2 =>
                /\ Len(added) = N - 1
                /\ \A k \in 1..(N - 1) :
                      /\ Len(added[k]) = k + 1
                      /\ \A j \in 1..(k + 1) : added[k][j] = ids[j]
                      /\ added[k][k + 1] = ids[k + 1]]_vars

C1_Witness ==
    /\ pc = "sequences"
    /\ li = 3
    /\ Len(LineIds(1)) = 3
    /\ Len(LineIds(2)) = 1
    /\ Len(input_sequences) = 2
    /\ Len(input_sequences[1]) = 2
    /\ Len(input_sequences[2]) = 3

(* C2: once the vocabulary is built, every distinct word of the corpus has *)
(* an id that is a positive integer, distinct words have distinct ids, no  *)
(* word has id 0, and total_words is the number of distinct words plus 1.  *)
C2_VocabularyIds ==
    VocabularyBuilt =>
        /\ \A w \in CorpusWords : w \in DOMAIN word_index
        /\ \A w \in DOMAIN word_index : word_index[w] \in Nat \ {0}
        /\ \A v, w \in DOMAIN word_index : word_index[v] = word_index[w] => v = w
        /\ ~ \E w \in DOMAIN word_index : word_index[w] = 0
        /\ total_words = Cardinality(CorpusWords) + 1

C2_Witness ==
    /\ pc = "sequences"
    /\ Cardinality(CorpusWords) = 2
    /\ total_words = 3
    /\ \E v, w \in DOMAIN word_index : word_index[v] = 1 /\ word_index[w] = 2

(* C3: from the cell that encodes the labels to the first test cell, row r *)
(* of X is the first L-1 ids of the r-th expanded sequence (L its length)  *)
(* behind W-1-(L-1) zeros, and row r of y has total_words columns, 1 in    *)
(* the column of the sequence's last id and 0 in every other column.       *)
C3_RowsAndLabels ==
    pc \in {"split", "build", "fit", "save", "test1"} =>
        LET expanded == ExpandedSequences
        IN /\ Len(X) = Len(expanded)
           /\ Len(y) = Len(expanded)
           /\ \A r \in 1..Len(expanded) :
                 LET s == expanded[r]
                     L == Len(s)
                     W == Len(input_sequences[r])
                 IN /\ X[r] = Zeros((W - 1) - (L - 1)) \o SubSeq(s, 1, L - 1)
                    /\ Len(X[r]) = W - 1
                    /\ Len(y[r]) = total_words
                    /\ \A c \in 0..(total_words - 1) :
                          y[r][c + 1] = IF c = s[L] THEN 1 ELSE 0

C3_Witness ==
    /\ pc = "split"
    /\ Len(X) = 3
    /\ X[1] = <<0, 0, 1>>
    /\ X[3] = <<1, 2, 1>>
    /\ y[3] = <<0, 0, 1>>

(* C4: from the padding cell to the first test cell, max_sequence_len is   *)
(* the greatest length of an                                               *)
(* expanded sequence, and every row of the padded matrix has that many     *)
(* columns: some zeros and then the ids of its sequence in their order,    *)
(* so that no 0 stands behind a non-zero id.                               *)
C4_LeftPadded ==
    (Padded /\ ~ Inference) =>
        LET expanded == ExpandedSequences
        IN /\ \A r \in 1..Len(expanded) : Len(expanded[r]) <= max_sequence_len
           /\ \E r \in 1..Len(expanded) : Len(expanded[r]) = max_sequence_len
           /\ Len(input_sequences) = Len(expanded)
           /\ \A r \in 1..Len(input_sequences) :
                 LET row == input_sequences[r]
                     s == expanded[r]
                 IN /\ Len(row) = max_sequence_len
                    /\ row = Zeros(max_sequence_len - Len(s)) \o s
                    /\ \A i, j \in 1..Len(row) :
                          (i < j /\ row[i] # 0) => row[j] # 0

C4_Witness ==
    /\ pc = "labels"
    /\ max_sequence_len = 3
    /\ input_sequences = << <<0, 1, 2>>, <<1, 2, 1>> >>

(* the id list of the text of the call that has returned *)
InputIds == TextsToSequences(word_index, input_text)

(* the class ids whose score is a maximum of the returned scores *)
Maxima ==
    {c \in 0..(Len(predicted) - 1) :
        \A d \in 0..(Len(predicted) - 1) : Leq(predicted[d + 1], predicted[c + 1])}

(* C5: when the id list of the input text has at least max_sequence_len    *)
(* ids, the row passed to the classifier is its last max_sequence_len - 1  *)
(* ids in order, without padding; when it has fewer, the row is the whole  *)
(* id list behind zeros. With max_sequence_len = 14 and 20 ids the row is  *)
(* the last 13 ids, the first 7 being dropped.                             *)
C5_KeepsLastIds ==
    called =>
        LET ids == InputIds
            n == Len(ids)
            W == max_sequence_len
        IN /\ Len(token_list) = W - 1
           /\ n >= W => token_list = [j \in 1..(W - 1) |-> ids[n - (W - 1) + j]]
           /\ n < W => token_list = Zeros(W - 1 - n) \o ids
           /\ PadPre(TruncateTokens([j \in 1..20 |-> j], 14), 13)
                 = [j \in 1..13 |-> j + 7]

C5_Witness ==
    /\ called
    /\ max_sequence_len = 2
    /\ InputIds = <<1, 2>>
    /\ token_list = <<2>>

(* C6: the word returned is the vocabulary word whose id is the lowest     *)
(* class id of maximal score; when no word has that id, as for id 0, the   *)
(* call returns None, and no error is raised.                              *)
C6_ArgMaxLookup ==
    called =>
        LET maxima == Maxima
            m == CHOOSE c \in maxima : \A d \in maxima : c <= d
        IN /\ Len(predicted) = total_words
           /\ error = ""
           /\ (\E w \in DOMAIN word_index : word_index[w] = m) =>
                 (next_word \in DOMAIN word_index /\ word_index[next_word] = m)
           /\ (~ \E w \in DOMAIN word_index : word_index[w] = m) => next_word = None
           /\ m = 0 => next_word = None

C6_Witness ==
    /\ called
    /\ Maxima = {0, 2}
    /\ next_word = None

(* the text of the call is empty or holds only words outside the vocabulary *)
NoKnownWord == \A j \in 1..Len(input_text) : input_text[j] \notin DOMAIN word_index

(* C7, as claimed: a call whose text is empty or holds only words absent   *)
(* from the vocabulary returns None.                                       *)
C7_EmptyGivesNone ==
    (called /\ NoKnownWord) => next_word = None

(* C7, amended: such a call raises no error, passes a row of               *)
(* max_sequence_len - 1 zeros to the classifier and returns the word of    *)
(* the lowest class id of maximal score; it returns None exactly when      *)
(* class 0 holds a maximal score.                                          *)
C7_EmptyGivesClassifierChoice ==
    (called /\ NoKnownWord) =>
        LET maxima == Maxima
        IN /\ error = ""
           /\ token_list = Zeros(max_sequence_len - 1)
           /\ next_word = None <=> 0 \in maxima
           /\ 0 \notin maxima =>
                 /\ next_word \in DOMAIN word_index
                 /\ word_index[next_word] \in maxima
                 /\ \A d \in maxima : word_index[next_word] <= d

C7_Witness ==
    /\ called
    /\ input_text = <<"z">>
    /\ token_list = <<0, 0>>
    /\ Maxima = {1}
    /\ next_word # None

(* no line of the corpus has two words (every word of the corpus is in    *)
(* the vocabulary, so a line's id list is as long as the line)             *)
NoSequence == \A l \in 1..Len(text) : Len(text[l]) < 2

(* C8: when no line of the corpus has tokenized length >= 2, the empty     *)
(* corpus included, the run never gets past the padding cell: that cell    *)
(* finds no sequence and ends the run with an error, and model.fit is      *)
(* never reached.                                                          *)
C8_NoSequenceNoTraining ==
    NoSequence =>
        /\ ~ fitted
        /\ pc \in {"tokenizer", "sequences", "pad", "failed"}
        /\ input_sequences = <<>>
        /\ pc = "failed" <=> error = "ValueError"
        /\ X_train = <<>> /\ y_train = <<>>

C8_Witness ==
    /\ NoSequence
    /\ pc = "failed"
    /\ error = "ValueError"
    /\ total_words = 3
    /\ ~ fitted

(* the greatest length of an expanded sequence, when there is one: the    *)
(* longest n-gram of a line is its whole id list, which has one id for     *)
(* each word of the line, every word of the corpus being in the vocabulary *)
LongestSequence ==
    CHOOSE n \in 2..MaxCorpusWords :
        /\ \E l \in 1..Len(text) : Len(text[l]) = n
        /\ \A l \in 1..Len(text) : Len(text[l]) <= n

(* C9: from the first prediction on, max_sequence_len (re-derived from     *)
(* the model's input shape) is the greatest length of an expanded          *)
(* sequence, the width of the padded matrix, and the row of every call     *)
(* has max_sequence_len - 1 columns like every training input row.         *)
C9_SameWidthAtInference ==
    Inference =>
        /\ max_sequence_len = LongestSequence
        /\ \A r \in 1..Len(input_sequences) :
              Len(input_sequences[r]) = max_sequence_len
        /\ \A r \in 1..Len(X_train) : Len(X_train[r]) = max_sequence_len - 1
        /\ \A r \in 1..Len(X_test) : Len(X_test[r]) = max_sequence_len - 1
        /\ called => Len(token_list) = max_sequence_len - 1

C9_Witness ==
    /\ pc = "print2"
    /\ called
    /\ max_sequence_len = 4
    /\ Len(token_list) = 3
    /\ Len(X_train) = 2
    /\ Len(X_train[1]) = 3

(* the place of a cell in the order the claim gives *)
StageOf(c) ==
    CASE c = "tokenizer" -> 1
      [] c = "sequences" -> 2
      [] c = "pad" -> 3
      [] c \in {"labels", "split", "build"} -> 4
      [] c = "fit" -> 5
      [] c = "save" -> 6
      [] c \in {"test1", "print1", "test2", "print2", "done"} -> 7
      [] c = "failed" -> 8

(* C10: the run goes through vocabulary construction, sequence expansion,  *)
(* padding, training and prediction in that order, no stage starting       *)
(* before the one before it is complete, and from the first expanded line  *)
(* on no step changes the word-to-id mapping.                              *)
C10_StagesInOrderVocabularyFrozen ==
    [][/\ StageOf(pc') >= StageOf(pc)
       /\ (pc' # "failed") => StageOf(pc') <= StageOf(pc) + 1
       /\ StageOf(pc') = 2 => word_index' = FitOnTexts(text)
       /\ StageOf(pc') = 3 => li' > Len(text)
       /\ StageOf(pc') \in 4..7 => Padded'
       /\ StageOf(pc') \in 6..7 => fitted'
       /\ called' => fitted
       /\ (pc # "tokenizer" \/ li > 1) => word_index' = word_index]_vars

C10_Witness ==
    /\ pc = "done"
    /\ fitted
    /\ saved
    /\ Padded
    /\ li = Len(text) + 1
    /\ Cardinality(DOMAIN word_index) = 2
    /\ word_index = FitOnTexts(text)

(* the ids of the words of the call's text that the vocabulary holds, in   *)
(* the order of the text                                                   *)
KnownIds ==
    LET known == SelectSeq(input_text, LAMBDA w : w \in DOMAIN word_index)
    IN [k \in 1..Len(known) |-> word_index[known[k]]]

(* C11: a word absent from the vocabulary leaves no id behind, neither 0   *)
(* nor another one: the sequences of the expansion hold ids of words only, *)
(* and the row of a call is made of the ids of the known words of its      *)
(* text (the last max_sequence_len - 1 of them, behind zeros). A text of   *)
(* unknown words only has no id, its row is max_sequence_len - 1 zeros,    *)
(* and the call raises no error.                                           *)
C11_UnknownWordsDropped ==
    /\ pc \in {"sequences", "pad"} =>
          \A r \in 1..Len(input_sequences) : \A j \in 1..Len(input_sequences[r]) :
              \E w \in DOMAIN word_index : word_index[w] = input_sequences[r][j]
    /\ called =>
          LET ids == KnownIds
              n == Len(ids)
              m == Min(n, max_sequence_len - 1)
          IN /\ token_list =
                   Zeros(max_sequence_len - 1 - m) \o [k \in 1..m |-> ids[n - m + k]]
             /\ NoKnownWord => (n = 0 /\ token_list = Zeros(max_sequence_len - 1))
             /\ error = ""

C11_Witness ==
    /\ called
    /\ input_text = <<"a", "z">>
    /\ max_sequence_len = 3
    /\ token_list = <<0, 1>>

(* cell 7 has run, and no test cell yet *)
SplitDone == pc \in {"build", "fit", "save", "test1"}

(* how many rows of the pair of matrices (xs, ys) are the example (x, l) *)
Copies(xs, ys, x, l) ==
    Cardinality({i \in 1..Len(xs) : xs[i] = x /\ ys[i] = l})

(* C12: after the split, the training and the held-out examples together   *)
(* are the N encoded examples, each one on exactly one side and with its   *)
(* own label: the sizes add up to N, and every pair of an input row and    *)
(* its label is as many times on the two sides together as in (X, y).      *)
(* The held-out side has ceil(0.2 * N) examples, at most one away from     *)
(* round(0.2 * N).                                                         *)
C12_SplitIsPartition ==
    SplitDone =>
        LET N == Len(X)
            nearest == (2 * N + 5) \div 10
        IN /\ Len(X_train) + Len(X_test) = N
           /\ Len(y_train) = Len(X_train)
           /\ Len(y_test) = Len(X_test)
           /\ Len(y) = N
           /\ \A r \in 1..N :
                 Copies(X_train, y_train, X[r], y[r])
                   + Copies(X_test, y_test, X[r], y[r]) = Copies(X, y, X[r], y[r])
           /\ 5 * Len(X_test) >= N
           /\ 5 * (Len(X_test) - 1) < N
           /\ Len(X_test) - nearest \in {0, 1}
           /\ Cardinality(test_idx) = Len(X_test)
           /\ test_idx \subseteq 1..N

C12_Witness ==
    /\ pc = "build"
    /\ Len(X) = 3
    /\ test_idx = {2}
    /\ Len(X_train) = 2
    /\ X_test = << X[2] >>
    /\ y_test = << y[2] >>
    /\ X_train = << X[1], X[3] >>

RECURSIVE StripLeadingZeros(_)
(* a row without the zeros it starts with *)
StripLeadingZeros(row) ==
    IF row # <<>> /\ Head(row) = 0 THEN StripLeadingZeros(Tail(row)) ELSE row

(* C13: a padded row without its leading zeros is the sequence that was    *)
(* padded, when that sequence is not longer than the pad width: each row   *)
(* of the padded matrix gives back its expanded sequence, and the row of   *)
(* a call whose text has at most max_sequence_len - 1 known words gives    *)
(* back the ids of those words, in the order of the text.                  *)
C13_PadThenStrip ==
    /\ (Padded /\ ~ Inference) =>
          LET expanded == ExpandedSequences
          IN \A r \in 1..Len(expanded) :
                Len(expanded[r]) <= max_sequence_len =>
                    StripLeadingZeros(input_sequences[r]) = expanded[r]
    /\ called =>
          LET ids == KnownIds
          IN Len(ids) <= max_sequence_len - 1 =>
                /\ StripLeadingZeros(token_list) = ids
                /\ Len(token_list) = max_sequence_len - 1

C13_Witness ==
    /\ called
    /\ max_sequence_len = 4
    /\ token_list = <<0, 2, 1>>
    /\ KnownIds = <<2, 1>>
    /\ StripLeadingZeros(token_list) = <<2, 1>>

(* ----- the corpus 'the king is dead' / 'long live the king' ---------- *)

KingLine1 == <<"the", "king", "is", "dead">>
KingLine2 == <<"long", "live", "the", "king">>
KingCorpus == <<KingLine1, KingLine2>>
KingWords == {"the", "king", "is", "dead", "long", "live"}

(* the corpus, and what stands in the file when it is cut short after any *)
(* of its words                                                            *)
KingCorpora ==
    {<<PySliceFirst(KingLine1, j)>> : j \in 0..Len(KingLine1)}
        \cup {<<KingLine1, PySliceFirst(KingLine2, j)>> : j \in 1..Len(KingLine2)}

InitKing ==
    /\ pc = Cells[1]
    /\ text \in KingCorpora
    /\ word_index = [w \in {} |-> 0]
    /\ total_words = 0
    /\ li = 1
    /\ input_sequences = <<>>
    /\ max_sequence_len = 0
    /\ X = <<>> /\ y = <<>>
    /\ test_idx = {}
    /\ X_train = <<>> /\ X_test = <<>> /\ y_train = <<>> /\ y_test = <<>>
    /\ input_shape = 0
    /\ fitted = FALSE
    /\ saved = FALSE
    /\ error = ""
    /\ called = FALSE
    /\ input_text = <<>>
    /\ token_list = <<>>
    /\ predicted = <<>>
    /\ next_word = None

SpecKing == InitKing /\ [][Next]_vars

(* what the claim says of this corpus besides the number of ids:          *)
(* total_words is 7, line 1 gives 3 sequences of lengths 2, 3, 4, line 2   *)
(* gives 3 more, and the pad width is 4                                    *)
KingSequencesAndWidth ==
    /\ VocabularyBuilt => total_words = 7
    /\ (pc = "sequences" /\ li = 2) =>
          /\ Len(input_sequences) = 3
          /\ \A k \in 1..3 : Len(input_sequences[k]) = k + 1
    /\ pc = "pad" =>
          /\ Len(input_sequences) = 6
          /\ \A k \in 1..3 : Len(input_sequences[k]) = k + 1
          /\ \A k \in 1..3 : Len(input_sequences[3 + k]) = k + 1
    /\ Padded =>
          /\ max_sequence_len = 4
          /\ Len(input_sequences) = 6
          /\ \A r \in 1..6 : Len(input_sequences[r]) = 4

(* the ids the vocabulary gives to the words of the corpus *)
KingIds == {word_index[w] : w \in KingWords \cap DOMAIN word_index}

(* C14, as claimed: for the corpus 'the king is dead' / 'long live the     *)
(* king' the vocabulary gives 4 distinct ids to the six words, total_words *)
(* is 7, line 1 yields 3 sequences of lengths 2, 3, 4, line 2 yields 3     *)
(* more, and W = 4.                                                        *)
C14_KingFourIds ==
    text = KingCorpus =>
        /\ VocabularyBuilt => Cardinality(KingIds) = 4
        /\ KingSequencesAndWidth

(* C14, amended: for that corpus the vocabulary gives 6 distinct ids, 1 to *)
(* 6, to the six words (the = 1, king = 2, then is, dead, long, live in    *)
(* the order they first occur), total_words is 7, line 1 yields the 3      *)
(* sequences of lengths 2, 3, 4, line 2 yields 3 more of lengths 2, 3, 4,  *)
(* and W = 4.                                                              *)
C14_KingSixIds ==
    text = KingCorpus =>
        /\ VocabularyBuilt =>
              /\ DOMAIN word_index = KingWords
              /\ Cardinality(KingIds) = 6
              /\ KingIds = 1..6
              /\ word_index = [w \in KingWords |->
                                  CASE w = "the" -> 1 [] w = "king" -> 2
                                    [] w = "is" -> 3 [] w = "dead" -> 4
                                    [] w = "long" -> 5 [] w = "live" -> 6]
        /\ KingSequencesAndWidth
        /\ pc = "pad" =>
              input_sequences = << <<1, 2>>, <<1, 2, 3>>, <<1, 2, 3, 4>>,
                                   <<5, 6>>, <<5, 6, 1>>, <<5, 6, 1, 2>> >>

C14_Witness ==
    /\ text = KingCorpus
    /\ pc = "labels"
    /\ max_sequence_len = 4
    /\ total_words = 7
    /\ Cardinality(KingIds) = 6
    /\ input_sequences = << <<0, 0, 1, 2>>, <<0, 1, 2, 3>>, <<1, 2, 3, 4>>,
                            <<0, 0, 5, 6>>, <<0, 5, 6, 1>>, <<5, 6, 1, 2>> >>

(* how often word w stands in the corpus *)
CountOf(w) ==
    LET all == Concat(text) IN Cardinality({j \in 1..Len(all) : all[j] = w})

(* the place of the first occurrence of word w in the corpus *)
FirstPlace(w) ==
    LET all == Concat(text)
    IN CHOOSE j \in 1..Len(all) : all[j] = w /\ \A i \in 1..(j - 1) : all[i] # w

(* C15: from the cell that builds the vocabulary to the first test cell    *)
(* (no later cell writes it) the ids are 1, 2, 3, ... without a gap, in    *)
(* order of descending word frequency in the corpus, words of equal count  *)
(* in the order of their first occurrence: of two words the one with the   *)
(* higher count has the smaller id, of two words with the same count the   *)
(* one that occurs first has the smaller id, and building the vocabulary   *)
(* again from the same corpus gives the same mapping.                      *)
C15_IdsByFrequency ==
    (VocabularyBuilt /\ ~ Inference) =>
        /\ {word_index[w] : w \in DOMAIN word_index} = 1..Cardinality(DOMAIN word_index)
        /\ \A v, w \in DOMAIN word_index :
              /\ CountOf(v) > CountOf(w) => word_index[v] < word_index[w]
              /\ (CountOf(v) = CountOf(w) /\ FirstPlace(v) < FirstPlace(w)) =>
                    word_index[v] < word_index[w]
        /\ FitOnTexts(text) = word_index

C15_Witness ==
    /\ pc = "sequences"
    /\ text = << <<"a", "b">>, <<"b">> >>
    /\ word_index["b"] = 1
    /\ word_index["a"] = 2

(* the class ids that a one-hot label row marks *)
TargetsOf(row) == {c \in 0..(Len(row) - 1) : row[c + 1] = 1}

(* the label row marks one class, the id of a vocabulary word *)
RealWordLabel(row) ==
    /\ Len(row) = total_words
    /\ Cardinality(TargetsOf(row)) = 1
    /\ 0 \notin TargetsOf(row)
    /\ TargetsOf(row) \subseteq 1..Cardinality(DOMAIN word_index)
    /\ \A c \in TargetsOf(row) : \E w \in DOMAIN word_index : word_index[w] = c

(* C16: the label of every example is the id of a vocabulary word, in      *)
(* 1..|vocabulary|, never the padding id 0: the last column of every       *)
(* padded row is such an id, the last id of a sequence of length >= 2, and *)
(* class 0 of the total_words classes is never the target of a row of y,   *)
(* of the training labels or of the held-out labels.                       *)
C16_LabelNeverPadding ==
    /\ (Padded /\ ~ Inference) =>
          LET expanded == ExpandedSequences
          IN \A r \in 1..Len(input_sequences) :
                /\ LastOf(input_sequences[r]) \in 1..Cardinality(DOMAIN word_index)
                /\ Len(expanded[r]) >= 2
                /\ LastOf(input_sequences[r]) = LastOf(expanded[r])
    /\ (pc = "split" \/ SplitDone) =>
          /\ \A r \in 1..Len(y) : RealWordLabel(y[r])
          /\ \A r \in 1..Len(y) : TargetsOf(y[r]) = {LastOf(input_sequences[r])}
    /\ SplitDone =>
          /\ \A r \in 1..Len(y_train) : RealWordLabel(y_train[r])
          /\ \A r \in 1..Len(y_test) : RealWordLabel(y_test[r])

C16_Witness ==
    /\ pc = "build"
    /\ total_words = 3
    /\ Len(y_train) = 2
    /\ Len(y_test) = 1
    /\ \E r \in 1..Len(input_sequences) : Head(input_sequences[r]) = 0
    /\ TargetsOf(y_train[1]) = {2}
    /\ TargetsOf(y_test[1]) = {1}

(* the row holds a non-zero id in its last column *)
EndsInWordId(row) == row # <<>> /\ LastOf(row) # 0

(* C17: every input row of X, of the training set and of the held-out set  *)
(* has a non-zero id in its last column, so holds at least one word id,    *)
(* while a call whose text has no vocabulary word passes a row of zeros    *)
(* only to the classifier: that row is no input row of the training set    *)
(* or of the held-out set.                                                 *)
C17_ZeroRowNeverTrained ==
    /\ \A r \in 1..Len(X) : EndsInWordId(X[r])
    /\ \A r \in 1..Len(X_train) :
          /\ EndsInWordId(X_train[r])
          /\ \E j \in 1..Len(X_train[r]) : X_train[r][j] \in 1..(total_words - 1)
    /\ \A r \in 1..Len(X_test) :
          /\ EndsInWordId(X_test[r])
          /\ \E j \in 1..Len(X_test[r]) : X_test[r][j] \in 1..(total_words - 1)
    /\ (called /\ NoKnownWord) =>
          /\ token_list = Zeros(max_sequence_len - 1)
          /\ Len(token_list) >= 1
          /\ \A j \in 1..Len(token_list) : token_list[j] = 0
          /\ \A r \in 1..Len(X) : X[r] # token_list
          /\ \A r \in 1..Len(X_train) : X_train[r] # token_list
          /\ \A r \in 1..Len(X_test) : X_test[r] # token_list

C17_Witness ==
    /\ pc = "print1"
    /\ called
    /\ input_text = <<"z", "z">>
    /\ token_list = <<0, 0>>
    /\ Len(X_train) = 1
    /\ Len(X_test) = 1
    /\ Len(X_train[1]) = 2
    /\ X_train[1] # token_list

==========================================================================
